---------------------------- MODULE Spec2Model ----------------------------
(***************************************************************************)
(* A model of the Stake Engine client (client.ts): the seven high-level    *)
(* RGS operations, the StakeEngineClient post/get methods they forward to, *)
(* the URL-parameter fallback and the amount conversion of play.           *)
(*                                                                         *)
(* JavaScript numbers are IEEE-754 doubles.  An amount is modelled as the  *)
(* double itself: a 53-bit significand (a sequence of bits, least          *)
(* significant first) and a binary exponent, so that the product           *)
(* amount * API_AMOUNT_MULTIPLIER is rounded exactly as the engine rounds  *)
(* it.                                                                     *)
(***************************************************************************)
EXTENDS Integers, Sequences, FiniteSets, TLC

(***************************************************************************)
(* Bounds of the model.                                                    *)
(***************************************************************************)
\* Number of call slots (calls that may be in flight at the same time).
MaxCalls == 2
\* Amounts with two decimal digits range over 0.00 .. MaxCents / 100.
MaxCents == 1100
\* Amounts with seven decimal digits range over 0 .. MaxTenMillionths / 10^7.
MaxTenMillionths == 24

(***************************************************************************)
(* Program constants (constants.ts, documented in the README).             *)
(***************************************************************************)
API_AMOUNT_MULTIPLIER == 1000000
BOOK_AMOUNT_MULTIPLIER == 100

(***************************************************************************)
(* JavaScript values.                                                      *)
(***************************************************************************)
\* undefined / null: an absent option, an absent URL parameter.
NULL == "<undefined>"

\* A presence test that only looks for undefined: "" counts as a value.
IsDefined(v) == v # NULL

\* ToBoolean on a string-or-undefined value: undefined, null and "" are falsy.
Truthy(v) == v # NULL /\ v # ""

(***************************************************************************)
(* IEEE-754 binary64 arithmetic on non-negative finite numbers.            *)
(* A number is [m |-> bits, e |-> exponent] with value m * 2^e, where m is *)
(* a 53-bit significand whose top bit is 1 (bits[1] is the least           *)
(* significant bit); zero is [m |-> <<>>, e |-> 0].                        *)
(***************************************************************************)
\* Width of the significand of a double.
SignificandBits == 53

\* Extra quotient bits kept by a division before rounding.
GuardShift == 96

Zero == [m |-> <<>>, e |-> 0]

RECURSIVE NatBits(_)
\* The binary digits of a natural number, least significant first.
NatBits(n) == IF n = 0 THEN <<>> ELSE <<n % 2>> \o NatBits(n \div 2)

RECURSIVE BitsNat(_, _)
\* The natural number whose binary digits from position i up are b[i..].
BitsNat(b, i) == IF i > Len(b) THEN 0 ELSE b[i] + 2 * BitsNat(b, i + 1)

\* Position of the highest 1 of b; 0 when there is none.
BitLen(b) ==
    IF \A i \in 1..Len(b) : b[i] = 0 THEN 0
    ELSE CHOOSE i \in 1..Len(b) : b[i] = 1 /\ \A j \in (i + 1)..Len(b) : b[j] = 0

RECURSIVE MulRange(_, _, _, _, _)
\* Digits lo..hi of b * k for a small natural k, with the carry in and out
\* (the lower half first, its carry into the upper half; the carry is never
\* negative, and testing it evaluates the lower half before the upper).
MulRange(b, k, lo, hi, carry) ==
    IF hi < lo THEN [bits |-> <<>>, carry |-> carry]
    ELSE IF hi = lo
    THEN LET t == b[lo] * k + carry
         IN  [bits |-> <<t % 2>>, carry |-> t \div 2]
    ELSE LET mid   == (lo + hi) \div 2
             lower == MulRange(b, k, lo, mid, carry)
         IN  IF lower.carry < 0 THEN lower
             ELSE LET upper == MulRange(b, k, mid + 1, hi, lower.carry)
                  IN  [bits |-> lower.bits \o upper.bits, carry |-> upper.carry]

\* b * k for a small natural k.
MulSmall(b, k) ==
    LET p == MulRange(b, k, 1, Len(b), 0) IN p.bits \o NatBits(p.carry)

RECURSIVE DivRange(_, _, _, _, _)
\* Long division of digits hi down to lo of b by a small natural k, with the
\* remainder in and out (the upper half first, its remainder into the lower;
\* the remainder is never negative, and testing it evaluates the upper half
\* before the lower).
DivRange(b, k, hi, lo, rem) ==
    IF hi < lo THEN [q |-> <<>>, r |-> rem]
    ELSE IF hi = lo
    THEN LET r2 == 2 * rem + b[hi]
             qb == IF r2 >= k THEN 1 ELSE 0
         IN  [q |-> <<qb>>, r |-> r2 - qb * k]
    ELSE LET mid   == (lo + hi) \div 2
             upper == DivRange(b, k, hi, mid + 1, rem)
         IN  IF upper.r < 0 THEN upper
             ELSE LET lower == DivRange(b, k, mid, lo, upper.r)
                  IN  [q |-> lower.q \o upper.q, r |-> lower.r]

\* b \div k and b % k for a small natural k.
DivSmall(b, k) == DivRange(b, k, Len(b), 1, 0)

\* b + 1.
IncBits(b) ==
    IF \A i \in 1..Len(b) : b[i] = 1 THEN [i \in 1..Len(b) |-> 0] \o <<1>>
    ELSE LET z == CHOOSE i \in 1..Len(b) : b[i] = 0 /\ \A j \in 1..(i - 1) : b[j] = 1
         IN  [i \in 1..Len(b) |-> IF i < z THEN 0 ELSE IF i = z THEN 1 ELSE b[i]]

ShiftLeft(b, s) == [i \in 1..s |-> 0] \o b

\* The double nearest to b * 2^e (+ a fraction of the last place of b when
\* sticky), ties to even: the rounding every IEEE-754 operation applies.
RoundToDouble(b, e, sticky) ==
    LET L == BitLen(b)
    IN  IF L = 0 THEN Zero
        ELSE IF L <= SignificandBits
        THEN [m |-> ShiftLeft(SubSeq(b, 1, L), SignificandBits - L),
              e |-> e - (SignificandBits - L)]
        ELSE LET s     == L - SignificandBits
                 kept  == SubSeq(b, s + 1, L)
                 guard == b[s]
                 rest  == sticky \/ \E i \in 1..(s - 1) : b[i] = 1
                 up    == guard = 1 /\ (rest \/ kept[1] = 1)
                 m0    == IF up THEN IncBits(kept) ELSE kept
             IN  IF Len(m0) > SignificandBits
                 THEN [m |-> SubSeq(m0, 2, Len(m0)), e |-> e + s + 1]
                 ELSE [m |-> m0, e |-> e + s]

\* The Number an integer converts to (exact below 2^53).
FromInt(n) == RoundToDouble(NatBits(n), 0, FALSE)

\* The Number a decimal literal n / 10^d denotes: the nearest double.
DecimalToDouble(n, d) ==
    LET qr == DivSmall(ShiftLeft(NatBits(n), GuardShift), 10 ^ d)
    IN  RoundToDouble(qr.q, 0 - GuardShift, qr.r # 0)

\* x * k for a Number x and an integer constant k: the exact product, rounded.
NumberTimes(x, k) == RoundToDouble(MulSmall(x.m, k), x.e, FALSE)

\* x / k for a Number x and an integer constant k: the exact quotient, rounded.
NumberOver(x, k) ==
    LET qr == DivSmall(ShiftLeft(x.m, GuardShift), k)
    IN  RoundToDouble(qr.q, x.e - GuardShift, qr.r # 0)

\* Number.isInteger on a non-negative Number.
IsInteger(x) ==
    \/ x = Zero
    \/ x.e >= 0
    \/ /\ 0 - x.e < SignificandBits
       /\ \A i \in 1..(0 - x.e) : x.m[i] = 0

\* Math.floor of a non-negative Number below 2^31, as an integer.
Floor(x) ==
    IF x = Zero THEN 0
    ELSE IF x.e >= 0 THEN BitsNat(ShiftLeft(x.m, x.e), 1)
    ELSE IF 0 - x.e >= SignificandBits THEN 0
    ELSE BitsNat(x.m, 1 - x.e)

\* Math.round of a non-negative Number below 2^31: the nearest integer,
\* halves upwards.
Round(x) ==
    IF x = Zero \/ x.e >= 0 THEN Floor(x)
    ELSE IF 0 - x.e > SignificandBits THEN 0
    ELSE Floor(x) + x.m[0 - x.e]


(***************************************************************************)
(* State.                                                                  *)
(***************************************************************************)
Calls == 1..MaxCalls

VARIABLES
    hasWindow,  \* TRUE in a browser page; FALSE where no global window exists
    location,   \* window.location.search, parsed: parameter name -> value or NULL
    pc,         \* per call: "idle", "waiting", "responded", "done"
    op,         \* per call: the operation called
    options,    \* per call: the options object it was called with
    urlParams,  \* per call: what its getUrlParams() returned (a local constant)
    reads,      \* per call: how many times it read window.location
    requests,   \* per call: the requests fetcher put on the wire for it
    response,   \* per call: what the transport answered
    outcome,    \* per call: how its promise settled
    console     \* per call: what it wrote with console.error

vars == <<hasWindow, location, pc, op, options, urlParams, reads, requests,
          response, outcome, console>>

\* The query parameters the client reads.
UrlKeys == {"sessionID", "rgs_url", "lang", "currency",
            "replay", "amount", "game", "version", "mode", "event"}

\* A page URL with no query string.
\* The text of a parameter that code reads character by character (amount,
\* which Number() parses), and the null that get() answers for a missing one.
Text(chars) == [chars |-> chars]
NoParam     == [absent |-> TRUE]

NoParams == [k \in UrlKeys |-> IF k = "amount" THEN NoParam ELSE NULL]

(***************************************************************************)
(* Errors and promise outcomes.                                            *)
(***************************************************************************)
Error(message) == [name |-> "Error", message |-> message]

\* Evaluating the identifier window where it is not declared.
WindowNotDefined == [name |-> "ReferenceError", message |-> "window is not defined"]

MissingSessionMsg == "sessionID is required (provide in options or URL param)"
MissingServerMsg  == "rgsUrl is required (provide in options or rgs_url URL param)"

Pending     == [kind |-> "pending"]
Rejected(e) == [kind |-> "rejected", error |-> e]
Fulfilled(v) == [kind |-> "fulfilled", value |-> v]

\* The synchronous part of an async operation ends by throwing (the promise
\* is rejected, nothing was sent) or by awaiting the requests it issued.
Throw(e)  == [outcome |-> Rejected(e), requests |-> <<>>]
Await(rs) == [outcome |-> Pending, requests |-> rs]

(***************************************************************************)
(* fetcher.ts: one fetch per call, a JSON body on POST, none on GET.       *)
(***************************************************************************)
fetcher(method, endpoint, variables) ==
    [method   |-> method,
     endpoint |-> endpoint,
     headers  |-> [ContentType |-> "application/json"],
     body     |-> IF method = "GET" THEN NULL ELSE variables]

(***************************************************************************)
(* class StakeEngineClient.                                                *)
(***************************************************************************)
\* A post() that sends the request a second time.
postTwice(rgsUrl, url, variables) ==
    Await(<<fetcher("POST", "https://" \o rgsUrl \o url, variables),
            fetcher("POST", "https://" \o rgsUrl \o url, variables)>>)

\* A post() that converts the amount of the body it is given.
postConverting(rgsUrl, url, variables) ==
    Await(<<fetcher("POST", "https://" \o rgsUrl \o url,
                    [variables EXCEPT !.amount =
                        NumberTimes(@, API_AMOUNT_MULTIPLIER)])>>)

\* post(), up to its first await: the one fetcher call.
post(rgsUrl, url, variables) ==
    Await(<<fetcher("POST", "https://" \o rgsUrl \o url, variables)>>)

\* get(), up to its first await: the one fetcher call.
get(rgsUrl, url) ==
    Await(<<fetcher("GET", "https://" \o rgsUrl \o url, NULL)>>)

\* A property of a parsed JSON value; undefined when the object has none.
Field(obj, k) == IF k \in DOMAIN obj THEN obj[k] ELSE NULL

\* An || with its operands swapped: the fallback wins when it is present.
OrFallbackFirst(a, b) == IF Truthy(b) THEN b ELSE a

\* a || b on strings.
Or(a, b) == IF Truthy(a) THEN a ELSE b

\* {}: an object with no JSON property.
EmptyObject == [empty |-> TRUE]

\* What the transport can answer.
NotJson  == [text |-> "<html>Bad Gateway</html>"]
JsonNull == [null |-> TRUE]
NetworkFailure == [failed |-> TRUE,
                   error |-> [name |-> "TypeError", message |-> "Failed to fetch"]]
HttpResponse(status, statusText, body) ==
    [failed |-> FALSE, status |-> status, statusText |-> statusText, body |-> body]

\* response.json(): the parsed body, or a rejection when the body is not JSON.
json(resp) ==
    IF resp.body = NotJson
    THEN Rejected([name |-> "SyntaxError", message |-> "Unexpected token < in JSON"])
    ELSE Fulfilled(resp.body)

\* A reader of the error body that takes its 'error' field, not 'message'.
errorMessageOtherField(errorData) ==
    IF errorData = JsonNull
    THEN Rejected([name |-> "TypeError",
                   message |-> "Cannot read properties of null (reading 'error')"])
    ELSE Fulfilled(Field(errorData, "error"))

\* Reading .message of the parsed error body; null has no properties.
errorMessage(errorData) ==
    IF errorData = JsonNull
    THEN Rejected([name |-> "TypeError",
                   message |-> "Cannot read properties of null (reading 'message')"])
    ELSE Fulfilled(Field(errorData, "message"))

\* The status line of a response as the fallback message spells it.
statusMessage(resp) ==
    "RGS API error: " \o ToString(resp.status) \o " " \o resp.statusText

\* An error path without the .catch(() => ({})): the parse failure of the
\* error body is what the caller gets.
afterFetchNoCatch(resp) ==
    IF resp.failed THEN [outcome |-> Rejected(resp.error), logged |-> <<>>]
    ELSE IF resp.status # 200
    THEN LET parsed == json(resp)
         IN  IF parsed.kind = "rejected" THEN [outcome |-> parsed, logged |-> <<>>]
             ELSE LET message == errorMessage(parsed.value)
                  IN  IF message.kind = "rejected"
                      THEN [outcome |-> message, logged |-> <<>>]
                      ELSE [outcome |-> Rejected(Error(Or(message.value,
                                                          statusMessage(resp)))),
                            logged |-> << <<"RGS API error:", message.value>> >>]
    ELSE [outcome |-> json(resp), logged |-> <<>>]

\* A success path that turns a body whose status is not SUCCESS into an
\* error.
afterFetchDomainErrors(resp) ==
    IF resp.failed THEN [outcome |-> Rejected(resp.error), logged |-> <<>>]
    ELSE IF resp.status # 200
    THEN LET parsed    == json(resp)
             errorData == IF parsed.kind = "rejected" THEN EmptyObject
                          ELSE parsed.value
             message   == errorMessage(errorData)
         IN  IF message.kind = "rejected"
             THEN [outcome |-> message, logged |-> <<>>]
             ELSE [outcome |-> Rejected(Error(Or(message.value, statusMessage(resp)))),
                   logged |-> << <<"RGS API error:", message.value>> >>]
    ELSE LET data == json(resp)
         IN  IF data.kind = "fulfilled" /\ Field(data.value, "status") \notin {NULL, "SUCCESS"}
             THEN [outcome |-> Rejected(Error(Field(data.value, "status"))),
                   logged |-> <<>>]
             ELSE [outcome |-> data, logged |-> <<>>]

\* An error path that logs and then returns the error body instead of
\* throwing.
afterFetchSwallow(resp) ==
    IF resp.failed THEN [outcome |-> Rejected(resp.error), logged |-> <<>>]
    ELSE IF resp.status # 200
    THEN LET parsed    == json(resp)
             errorData == IF parsed.kind = "rejected" THEN EmptyObject
                          ELSE parsed.value
             message   == errorMessage(errorData)
         IN  IF message.kind = "rejected"
             THEN [outcome |-> message, logged |-> <<>>]
             ELSE [outcome |-> Fulfilled(errorData),
                   logged |-> << <<"RGS API error:", message.value>> >>]
    ELSE [outcome |-> json(resp), logged |-> <<>>]

\* post() and get() after the await of fetcher: the status check, the error
\* mapping and the parse of the body.  Yields the settled promise and what
\* was logged.
afterFetch(resp) ==
    IF resp.failed THEN [outcome |-> Rejected(resp.error), logged |-> <<>>]
    ELSE IF resp.status # 200
    THEN LET parsed    == json(resp)
             errorData == IF parsed.kind = "rejected" THEN EmptyObject
                          ELSE parsed.value
             message   == errorMessage(errorData)
         IN  IF message.kind = "rejected"
             THEN [outcome |-> message, logged |-> <<>>]
             ELSE [outcome |-> Rejected(Error(Or(message.value, statusMessage(resp)))),
                   logged |-> << <<"RGS API error:", message.value>> >>]
    ELSE [outcome |-> json(resp), logged |-> <<>>]

(***************************************************************************)
(* URL parameters.                                                         *)
(***************************************************************************)
\* new URLSearchParams(window.location.search): throws where window is not
\* declared.
URLSearchParams ==
    IF hasWindow THEN Fulfilled(location) ELSE Rejected(WindowNotDefined)

\* A getUrlParams without the || 'en' and || 'USD' defaults.
getUrlParamsNoDefaults ==
    LET parsed == URLSearchParams
    IN  IF parsed.kind = "rejected" THEN parsed
        ELSE Fulfilled([sessionID |-> parsed.value["sessionID"],
                        rgsUrl    |-> parsed.value["rgs_url"],
                        language  |-> parsed.value["lang"],
                        currency  |-> parsed.value["currency"]])

\* A getUrlParams that reads the URL once and keeps what it read: while
\* the values an earlier call read are still around, they are returned.
getUrlParamsCached ==
    LET parsed == URLSearchParams
    IN  IF parsed.kind = "rejected" THEN parsed
        ELSE IF urlParams[1] # [none |-> TRUE] THEN Fulfilled(urlParams[1])
        ELSE Fulfilled([sessionID |-> parsed.value["sessionID"],
                        rgsUrl    |-> parsed.value["rgs_url"],
                        language  |-> Or(parsed.value["lang"], "en"),
                        currency  |-> Or(parsed.value["currency"], "USD")])

getUrlParams ==
    LET parsed == URLSearchParams
    IN  IF parsed.kind = "rejected" THEN parsed
        ELSE Fulfilled([sessionID |-> parsed.value["sessionID"],
                        rgsUrl    |-> parsed.value["rgs_url"],
                        language  |-> Or(parsed.value["lang"], "en"),
                        currency  |-> Or(parsed.value["currency"], "USD")])

(***************************************************************************)
(* The high-level operations, up to their first await.                     *)
(***************************************************************************)
\* A conversion with the book multiplier.
toApiAmountBook(amount) == NumberTimes(amount, BOOK_AMOUNT_MULTIPLIER)

\* A conversion that truncates the product: Math.floor(amount * multiplier).
toApiAmountFloor(amount) == FromInt(Floor(NumberTimes(amount, API_AMOUNT_MULTIPLIER)))

\* options.amount * API_AMOUNT_MULTIPLIER
toApiAmount(amount) == NumberTimes(amount, API_AMOUNT_MULTIPLIER)

\* An authenticate that reads the URL only for the values it was not
\* given, after looking at its options.
authenticateLazyRead(o) ==
    LET u == IF Truthy(o.sessionID) /\ Truthy(o.rgsUrl) /\ Truthy(o.language)
             THEN Fulfilled([sessionID |-> NULL, rgsUrl |-> NULL, language |-> "en"])
             ELSE getUrlParams
    IN  IF u.kind = "rejected" THEN Throw(u.error)
        ELSE LET sessionID == Or(o.sessionID, u.value.sessionID)
                 rgsUrl    == Or(o.rgsUrl, u.value.rgsUrl)
                 language  == Or(o.language, u.value.language)
             IN  IF ~Truthy(sessionID) THEN Throw(Error(MissingSessionMsg))
                 ELSE IF ~Truthy(rgsUrl) THEN Throw(Error(MissingServerMsg))
                 ELSE post(rgsUrl, "/wallet/authenticate",
                           [sessionID |-> sessionID, language |-> language])

authenticate(o) ==
    LET u == getUrlParams
    IN  IF u.kind = "rejected" THEN Throw(u.error)
        ELSE LET sessionID == Or(o.sessionID, u.value.sessionID)
                 rgsUrl    == Or(o.rgsUrl, u.value.rgsUrl)
                 language  == Or(o.language, u.value.language)
             IN  IF ~Truthy(sessionID) THEN Throw(Error(MissingSessionMsg))
                 ELSE IF ~Truthy(rgsUrl) THEN Throw(Error(MissingServerMsg))
                 ELSE post(rgsUrl, "/wallet/authenticate",
                           [sessionID |-> sessionID, language |-> language])

play(o) ==
    LET u == getUrlParams
    IN  IF u.kind = "rejected" THEN Throw(u.error)
        ELSE LET sessionID == Or(o.sessionID, u.value.sessionID)
                 rgsUrl    == Or(o.rgsUrl, u.value.rgsUrl)
                 currency  == Or(o.currency, u.value.currency)
             IN  IF ~Truthy(sessionID) THEN Throw(Error(MissingSessionMsg))
                 ELSE IF ~Truthy(rgsUrl) THEN Throw(Error(MissingServerMsg))
                 ELSE post(rgsUrl, "/wallet/play",
                           [mode      |-> o.mode,
                            currency  |-> currency,
                            sessionID |-> sessionID,
                            amount    |-> toApiAmount(o.amount)])

\* An endRound that posts to the balance path.
endRoundBalancePath(o) ==
    LET u == getUrlParams
    IN  IF u.kind = "rejected" THEN Throw(u.error)
        ELSE LET sessionID == Or(o.sessionID, u.value.sessionID)
                 rgsUrl    == Or(o.rgsUrl, u.value.rgsUrl)
             IN  IF ~Truthy(sessionID) THEN Throw(Error(MissingSessionMsg))
                 ELSE IF ~Truthy(rgsUrl) THEN Throw(Error(MissingServerMsg))
                 ELSE post(rgsUrl, "/wallet/balance", [sessionID |-> sessionID])

endRound(o) ==
    LET u == getUrlParams
    IN  IF u.kind = "rejected" THEN Throw(u.error)
        ELSE LET sessionID == Or(o.sessionID, u.value.sessionID)
                 rgsUrl    == Or(o.rgsUrl, u.value.rgsUrl)
             IN  IF ~Truthy(sessionID) THEN Throw(Error(MissingSessionMsg))
                 ELSE IF ~Truthy(rgsUrl) THEN Throw(Error(MissingServerMsg))
                 ELSE post(rgsUrl, "/wallet/end-round", [sessionID |-> sessionID])

\* An endEvent that takes a falsy eventIndex for a missing one.
endEventFalsyIndex(o) ==
    LET u == getUrlParams
    IN  IF u.kind = "rejected" THEN Throw(u.error)
        ELSE LET sessionID == Or(o.sessionID, u.value.sessionID)
                 rgsUrl    == Or(o.rgsUrl, u.value.rgsUrl)
             IN  IF ~Truthy(sessionID) THEN Throw(Error(MissingSessionMsg))
                 ELSE IF ~Truthy(rgsUrl) THEN Throw(Error(MissingServerMsg))
                 ELSE post(rgsUrl, "/bet/event",
                           [sessionID |-> sessionID,
                            event     |-> IF o.eventIndex = 0 THEN NULL
                                          ELSE ToString(o.eventIndex)])

endEvent(o) ==
    LET u == getUrlParams
    IN  IF u.kind = "rejected" THEN Throw(u.error)
        ELSE LET sessionID == Or(o.sessionID, u.value.sessionID)
                 rgsUrl    == Or(o.rgsUrl, u.value.rgsUrl)
             IN  IF ~Truthy(sessionID) THEN Throw(Error(MissingSessionMsg))
                 ELSE IF ~Truthy(rgsUrl) THEN Throw(Error(MissingServerMsg))
                 ELSE post(rgsUrl, "/bet/event",
                           [sessionID |-> sessionID,
                            event     |-> ToString(o.eventIndex)])

forceResult(o) ==
    LET u == getUrlParams
    IN  IF u.kind = "rejected" THEN Throw(u.error)
        ELSE LET rgsUrl == Or(o.rgsUrl, u.value.rgsUrl)
             IN  IF ~Truthy(rgsUrl) THEN Throw(Error(MissingServerMsg))
                 ELSE post(rgsUrl, "/game/search",
                           [mode |-> o.mode, search |-> o.search])

getBalance(o) ==
    LET u == getUrlParams
    IN  IF u.kind = "rejected" THEN Throw(u.error)
        ELSE LET sessionID == Or(o.sessionID, u.value.sessionID)
                 rgsUrl    == Or(o.rgsUrl, u.value.rgsUrl)
             IN  IF ~Truthy(sessionID) THEN Throw(Error(MissingSessionMsg))
                 ELSE IF ~Truthy(rgsUrl) THEN Throw(Error(MissingServerMsg))
                 ELSE post(rgsUrl, "/wallet/balance", [sessionID |-> sessionID])

\* A replay that passes the page's amount on in a query string.
replayWithAmount(o) ==
    LET u == getUrlParams
    IN  IF u.kind = "rejected" THEN Throw(u.error)
        ELSE LET rgsUrl == Or(o.rgsUrl, u.value.rgsUrl)
             IN  IF ~Truthy(rgsUrl) THEN Throw(Error(MissingServerMsg))
                 ELSE get(rgsUrl,
                          "/bet/replay/" \o o.game \o "/" \o o.version \o "/"
                              \o o.mode \o "/" \o o.event
                              \o (IF location["amount"] = [absent |-> TRUE] THEN ""
                                  ELSE "?amount=" \o ToString(Len(location["amount"].chars))))

\* A replay whose path has mode and version in each other's place.
replaySwapped(o) ==
    LET u == getUrlParams
    IN  IF u.kind = "rejected" THEN Throw(u.error)
        ELSE LET rgsUrl == Or(o.rgsUrl, u.value.rgsUrl)
             IN  IF ~Truthy(rgsUrl) THEN Throw(Error(MissingServerMsg))
                 ELSE get(rgsUrl,
                          "/bet/replay/" \o o.game \o "/" \o o.mode \o "/"
                              \o o.version \o "/" \o o.event)

replay(o) ==
    LET u == getUrlParams
    IN  IF u.kind = "rejected" THEN Throw(u.error)
        ELSE LET rgsUrl == Or(o.rgsUrl, u.value.rgsUrl)
             IN  IF ~Truthy(rgsUrl) THEN Throw(Error(MissingServerMsg))
                 ELSE get(rgsUrl,
                          "/bet/replay/" \o o.game \o "/" \o o.version \o "/"
                              \o o.mode \o "/" \o o.event)


(***************************************************************************)
(* Inputs: what callers pass and what the page URL and the server hold.    *)
(***************************************************************************)
SessionOptions  == {NULL, "", "s1"}
HostOptions     == {NULL, "", "h"}
LanguageOptions == {NULL, "", "fr"}
CurrencyOptions == {NULL, "", "EUR"}
Modes           == {"base", "bonus"}
EventIndexes    == {0, 1}

\* 1.00 and 2.01 as Numbers.
OneUnit  == DecimalToDouble(100, 2)
TwoOhOne == DecimalToDouble(201, 2)
Amounts  == {OneUnit, TwoOhOne}

\* Amounts with two decimal digits, and amounts with seven.
CentAmounts == {DecimalToDouble(n, 2) : n \in 0..MaxCents}
FineAmounts == {DecimalToDouble(n, 7) : n \in 0..MaxTenMillionths}

AuthenticateOptions ==
    [sessionID : SessionOptions, rgsUrl : HostOptions, language : LanguageOptions]
PlayOptions ==
    [amount : Amounts, mode : Modes, currency : CurrencyOptions,
     sessionID : SessionOptions, rgsUrl : HostOptions]
SessionHostOptions == [sessionID : SessionOptions, rgsUrl : HostOptions]
EndEventOptions ==
    [eventIndex : EventIndexes, sessionID : SessionOptions, rgsUrl : HostOptions]
ForceResultOptions ==
    [mode : Modes, search : {[bookID |-> 42, symbol |-> "BONUS"]}, rgsUrl : HostOptions]
ReplayOptions ==
    [game : {"slots"}, version : {"v1"}, mode : {"base"}, event : {"e9", "a b?c"},
     rgsUrl : HostOptions]

\* The query strings a page can be opened with.
Locations ==
    {[k \in UrlKeys |->
        CASE k = "sessionID" -> sid
          [] k = "rgs_url"   -> host
          [] k = "lang"      -> lang
          [] k = "currency"  -> cur
          [] k = "amount"    -> NoParam
          [] OTHER           -> NULL] :
        sid \in {NULL, "", "u1"}, host \in {NULL, "", "rgs.example"},
        lang \in {NULL, "", "de"}, cur \in {NULL, "", "JPY"}}

\* What the server, or the network, can answer to a request.
Responses ==
    { HttpResponse(200, "OK", [status |-> "SUCCESS", amount |-> 5000000]),
      HttpResponse(200, "OK", [status |-> "ERR_IPB", amount |-> 0]),
      HttpResponse(200, "OK", NotJson),
      HttpResponse(400, "Bad Request", [message |-> "bad session"]),
      HttpResponse(400, "Bad Request", [message |-> ""]),
      HttpResponse(400, "Bad Request", JsonNull),
      HttpResponse(500, "Internal Server Error", [code |-> "ERR_UE"]),
      HttpResponse(500, "Internal Server Error", NotJson),
      NetworkFailure }

NoCall    == [none |-> TRUE]
NoOutcome == [kind |-> "none"]

(***************************************************************************)
(* Actions.                                                                *)
(***************************************************************************)
\* A caller invokes an operation: everything the operation does up to its
\* first await happens in this one step.
Invoke(c, name, o, run) ==
    /\ pc[c] = "idle"
    /\ op' = [op EXCEPT ![c] = name]
    /\ options' = [options EXCEPT ![c] = o]
    /\ urlParams' = [urlParams EXCEPT ![c] =
                        IF getUrlParams.kind = "fulfilled" THEN getUrlParams.value
                        ELSE NoCall]
    /\ reads' = [reads EXCEPT ![c] = 1]
    /\ requests' = [requests EXCEPT ![c] = run.requests]
    /\ outcome' = [outcome EXCEPT ![c] = run.outcome]
    /\ pc' = [pc EXCEPT ![c] = IF run.outcome = Pending THEN "waiting" ELSE "done"]
    /\ UNCHANGED <<hasWindow, location, response, console>>

Authenticate(c, o) == Invoke(c, "authenticate", o, authenticate(o))
Play(c, o)         == Invoke(c, "play", o, play(o))
EndRound(c, o)     == Invoke(c, "endRound", o, endRound(o))
EndEvent(c, o)     == Invoke(c, "endEvent", o, endEvent(o))
ForceResult(c, o)  == Invoke(c, "forceResult", o, forceResult(o))
GetBalance(c, o)   == Invoke(c, "getBalance", o, getBalance(o))
Replay(c, o)       == Invoke(c, "replay", o, replay(o))

\* The transport settles the fetch of a waiting call.
Respond(c, r) ==
    /\ pc[c] = "waiting"
    /\ response' = [response EXCEPT ![c] = r]
    /\ pc' = [pc EXCEPT ![c] = "responded"]
    /\ UNCHANGED <<hasWindow, location, op, options, urlParams, reads, requests,
                   outcome, console>>

\* A resumption that handles answers only: when the fetch itself failed,
\* nothing resumes the call.
SettleAnswersOnly(c) ==
    /\ pc[c] = "responded"
    /\ ~response[c].failed
    /\ LET done == afterFetch(response[c])
       IN  /\ outcome' = [outcome EXCEPT ![c] = done.outcome]
           /\ console' = [console EXCEPT ![c] = console[c] \o done.logged]
    /\ pc' = [pc EXCEPT ![c] = "done"]
    /\ UNCHANGED <<hasWindow, location, op, options, urlParams, reads, requests,
                   response>>

\* A resumption that takes the response from one shared place: the answer
\* of whichever answered call comes first.
SettleShared(c) ==
    /\ pc[c] = "responded"
    /\ LET d    == CHOOSE d \in Calls :
                       /\ pc[d] = "responded"
                       /\ \A x \in Calls : pc[x] = "responded" => d <= x
           done == afterFetch(response[d])
       IN  /\ outcome' = [outcome EXCEPT ![c] = done.outcome]
           /\ console' = [console EXCEPT ![c] = console[c] \o done.logged]
    /\ pc' = [pc EXCEPT ![c] = "done"]
    /\ UNCHANGED <<hasWindow, location, op, options, urlParams, reads, requests,
                   response>>

\* post()/get() resume after the await and settle the operation's promise.
Settle(c) ==
    /\ pc[c] = "responded"
    /\ LET done == afterFetch(response[c])
       IN  /\ outcome' = [outcome EXCEPT ![c] = done.outcome]
           /\ console' = [console EXCEPT ![c] = console[c] \o done.logged]
    /\ pc' = [pc EXCEPT ![c] = "done"]
    /\ UNCHANGED <<hasWindow, location, op, options, urlParams, reads, requests,
                   response>>

\* The caller has taken the outcome; the slot serves the next call.
Return(c) ==
    /\ pc[c] = "done"
    /\ pc' = [pc EXCEPT ![c] = "idle"]
    /\ op' = [op EXCEPT ![c] = NULL]
    /\ options' = [options EXCEPT ![c] = NoCall]
    /\ urlParams' = [urlParams EXCEPT ![c] = NoCall]
    /\ reads' = [reads EXCEPT ![c] = 0]
    /\ requests' = [requests EXCEPT ![c] = <<>>]
    /\ response' = [response EXCEPT ![c] = NoCall]
    /\ outcome' = [outcome EXCEPT ![c] = NoOutcome]
    /\ console' = [console EXCEPT ![c] = <<>>]
    /\ UNCHANGED <<hasWindow, location>>

\* The page moves to another query string while no call is running.
Navigate(l) ==
    /\ hasWindow
    /\ \A c \in Calls : pc[c] = "idle"
    /\ location' = l
    /\ UNCHANGED <<hasWindow, pc, op, options, urlParams, reads, requests,
                   response, outcome, console>>

IdleCalls ==
    /\ pc = [c \in Calls |-> "idle"]
    /\ op = [c \in Calls |-> NULL]
    /\ options = [c \in Calls |-> NoCall]
    /\ urlParams = [c \in Calls |-> NoCall]
    /\ reads = [c \in Calls |-> 0]
    /\ requests = [c \in Calls |-> <<>>]
    /\ response = [c \in Calls |-> NoCall]
    /\ outcome = [c \in Calls |-> NoOutcome]
    /\ console = [c \in Calls |-> <<>>]

\* A browser page with any query string, or a host with no window at all.
Init ==
    /\ hasWindow \in BOOLEAN
    /\ location \in (IF hasWindow THEN Locations ELSE {NoParams})
    /\ IdleCalls

\* One call at a time, in the first slot.
Next ==
    \/ \E o \in AuthenticateOptions : Authenticate(1, o)
    \/ \E o \in PlayOptions : Play(1, o)
    \/ \E o \in SessionHostOptions : EndRound(1, o)
    \/ \E o \in EndEventOptions : EndEvent(1, o)
    \/ \E o \in ForceResultOptions : ForceResult(1, o)
    \/ \E o \in SessionHostOptions : GetBalance(1, o)
    \/ \E o \in ReplayOptions : Replay(1, o)
    \/ \E r \in Responses : Respond(1, r)
    \/ Settle(1)
    \/ Return(1)
    \/ \E l \in Locations : Navigate(l)

Spec == Init /\ [][Next]_vars

(***************************************************************************)
(* The amount conversion alone: play with every amount of the bounded      *)
(* ranges, everything else explicit, on a page with no query string.       *)
(***************************************************************************)
InitAmount ==
    /\ hasWindow = TRUE
    /\ location = NoParams
    /\ IdleCalls

NextAmount ==
    \/ \E a \in CentAmounts \cup FineAmounts :
          Play(1, [amount |-> a, mode |-> "base", currency |-> NULL,
                   sessionID |-> "s1", rgsUrl |-> "h"])
    \/ \E r \in Responses : Respond(1, r)
    \/ Settle(1)
    \/ Return(1)

SpecAmount == InitAmount /\ [][NextAmount]_vars


(***************************************************************************)
(* The replay helpers: getReplayUrlParams and isReplayMode.                *)
(***************************************************************************)
\* The longest amount text the pages of ReplayLocations carry.
MaxAmountChars == 4

DigitChars == <<"0", "1", "2", "3", "4", "5", "6", "7", "8", "9">>
IsDigit(ch) == \E i \in 1..10 : DigitChars[i] = ch
DigitValue(ch) == (CHOOSE i \in 1..10 : DigitChars[i] = ch) - 1

RECURSIVE DigitsValue(_)
\* The natural number a sequence of digits spells.
DigitsValue(ds) ==
    IF ds = <<>> THEN 0
    ELSE DigitsValue(SubSeq(ds, 1, Len(ds) - 1)) * 10 + DigitValue(ds[Len(ds)])

\* A Number with its sign, and NaN.
SignedNumber(neg, abs) == [neg |-> neg, abs |-> abs]
PlusZero == SignedNumber(FALSE, Zero)
NaN == [nan |-> TRUE]

\* String.prototype.trim as Number() applies it: blanks off both ends.
Trim(text) ==
    LET inked == {i \in 1..Len(text) : text[i] # " "}
    IN  IF inked = {} THEN <<>>
        ELSE SubSeq(text, CHOOSE i \in inked : \A j \in inked : i <= j,
                          CHOOSE i \in inked : \A j \in inked : j <= i)

\* Number(text) for a text of digits, '.', signs, blanks and other
\* characters that no numeric literal of these has: the empty or blank text
\* is 0, a signed decimal literal is its value, anything else NaN.
StringToNumber(text) ==
    LET t      == Trim(text)
        signed == t # <<>> /\ t[1] \in {"-", "+"}
        u      == IF signed THEN Tail(t) ELSE t
        dots   == {i \in 1..Len(u) : u[i] = "."}
        digits == SelectSeq(u, IsDigit)
    IN  IF t = <<>> THEN PlusZero
        ELSE IF \/ Cardinality(dots) > 1
                \/ digits = <<>>
                \/ Len(digits) + Cardinality(dots) # Len(u)
        THEN NaN
        ELSE SignedNumber(signed /\ t[1] = "-",
                          DecimalToDouble(DigitsValue(digits),
                                          IF dots = {} THEN 0
                                          ELSE Len(u) - (CHOOSE i \in dots : TRUE)))

\* Number(urlParams.get(k)): Number(null) is 0.
Number(param) == IF param = NoParam THEN PlusZero ELSE StringToNumber(param.chars)

\* An amount read without the || 0: NaN stays NaN.
NumberOrNaN(n, fallback) == n

\* n || fallback on Numbers: NaN, 0 and -0 are falsy.
OrNumber(n, fallback) == IF n = NaN \/ n.abs = Zero THEN fallback ELSE n

getReplayUrlParams ==
    LET parsed == URLSearchParams
    IN  IF parsed.kind = "rejected" THEN parsed
        ELSE Fulfilled([replay  |-> parsed.value["replay"] = "true",
                        amount  |-> OrNumber(Number(parsed.value["amount"]), PlusZero),
                        game    |-> Or(parsed.value["game"], ""),
                        version |-> Or(parsed.value["version"], ""),
                        mode    |-> Or(parsed.value["mode"], ""),
                        event   |-> Or(parsed.value["event"], "")])

\* An isReplayMode that takes any non-empty value of the flag for true.
isReplayModeTruthy ==
    LET parsed == URLSearchParams
    IN  IF parsed.kind = "rejected" THEN parsed
        ELSE Fulfilled(Truthy(parsed.value["replay"]))

isReplayMode ==
    LET parsed == URLSearchParams
    IN  IF parsed.kind = "rejected" THEN parsed
        ELSE Fulfilled(parsed.value["replay"] = "true")

\* The values the replay flag and the amount can have in a page URL.
ReplayFlags == {NULL, "", "true", "TRUE", "True", "1", "false", " true"}
AmountChars == {"0", "2", "5", ".", "-", " ", "a"}
AmountTexts == UNION {[1..n -> AmountChars] : n \in 0..MaxAmountChars}

\* Pages opened for a replay: every flag with every presence of the four
\* identifiers, and every amount text.
ReplayLocations ==
    {[k \in UrlKeys |->
        CASE k = "replay"  -> flag
          [] k = "amount"  -> amt
          [] k = "game"    -> game
          [] k = "version" -> version
          [] k = "mode"    -> mode
          [] k = "event"   -> event
          [] OTHER         -> NULL] :
        flag \in ReplayFlags, amt \in {NoParam, Text(<<"2", ".", "5", "0">>)},
        game \in {NULL, "", "slots"}, version \in {NULL, "", "v1"},
        mode \in {NULL, "base"}, event \in {NULL, "e9"}}
    \cup
    {[k \in UrlKeys |->
        CASE k = "replay"  -> "true"
          [] k = "amount"  -> Text(t)
          [] k = "game"    -> "slots"
          [] k = "version" -> "v1"
          [] k = "mode"    -> "base"
          [] k = "event"   -> "e9"
          [] OTHER         -> NULL] : t \in AmountTexts}

\* A synchronous helper runs to its return or its throw in one step.
CallHelper(c, name, result) ==
    /\ pc[c] = "idle"
    /\ op' = [op EXCEPT ![c] = name]
    /\ outcome' = [outcome EXCEPT ![c] = result]
    /\ reads' = [reads EXCEPT ![c] = 1]
    /\ pc' = [pc EXCEPT ![c] = "done"]
    /\ UNCHANGED <<hasWindow, location, options, urlParams, requests, response,
                   console>>

IsReplayMode(c)       == CallHelper(c, "isReplayMode", isReplayMode)
GetReplayUrlParams(c) == CallHelper(c, "getReplayUrlParams", getReplayUrlParams)

InitReplayUrl ==
    /\ hasWindow \in BOOLEAN
    /\ location \in (IF hasWindow THEN ReplayLocations ELSE {NoParams})
    /\ IdleCalls

NextReplayUrl ==
    \/ IsReplayMode(1)
    \/ GetReplayUrlParams(1)
    \/ Return(1)

SpecReplayUrl == InitReplayUrl /\ [][NextReplayUrl]_vars

(***************************************************************************)
(* The deprecated names.  client.ts binds seven of them to the canonical   *)
(* functions; index.ts re-exports nine from './client'.                    *)
(***************************************************************************)
requestBet(o)          == play(o)
requestAuthenticate(o) == authenticate(o)
requestBalance(o)      == getBalance(o)
requestEndRound(o)     == endRound(o)
requestEndEvent(o)     == endEvent(o)
requestForceResult(o)  == forceResult(o)
requestReplay(o)       == replay(o)

\* The deprecated names client.ts defines, and those index.ts re-exports.
ClientAliases == {"requestBet", "requestAuthenticate", "requestBalance",
                  "requestEndRound", "requestEndEvent", "requestForceResult",
                  "requestReplay"}
IndexAliases  == {"requestAuthenticate", "requestBalance", "requestPlay",
                  "requestBet", "bet", "requestEndRound", "requestEndEvent",
                  "requestForceResult", "requestReplay"}

\* The canonical operation index.ts names for each deprecated export.
CanonicalOf(alias) ==
    CASE alias = "requestAuthenticate" -> "authenticate"
      [] alias = "requestBalance"      -> "getBalance"
      [] alias \in {"requestPlay", "requestBet", "bet"} -> "play"
      [] alias = "requestEndRound"     -> "endRound"
      [] alias = "requestEndEvent"     -> "endEvent"
      [] alias = "requestForceResult"  -> "forceResult"
      [] alias = "requestReplay"       -> "replay"

\* The options each operation takes.
OptionsOf(name) ==
    CASE name = "authenticate" -> AuthenticateOptions
      [] name = "play"         -> PlayOptions
      [] name = "endRound"     -> SessionHostOptions
      [] name = "endEvent"     -> EndEventOptions
      [] name = "forceResult"  -> ForceResultOptions
      [] name = "getBalance"   -> SessionHostOptions
      [] name = "replay"       -> ReplayOptions

\* What a call through a name that client.ts defines runs.
RunAlias(alias, o) ==
    CASE alias = "requestBet"          -> requestBet(o)
      [] alias = "requestAuthenticate" -> requestAuthenticate(o)
      [] alias = "requestBalance"      -> requestBalance(o)
      [] alias = "requestEndRound"     -> requestEndRound(o)
      [] alias = "requestEndEvent"     -> requestEndEvent(o)
      [] alias = "requestForceResult"  -> requestForceResult(o)
      [] alias = "requestReplay"       -> requestReplay(o)

\* Calling an export that has no binding in './client': the name evaluates
\* to undefined and the call throws.
NotAFunction(alias) ==
    [name |-> "TypeError", message |-> alias \o " is not a function"]

\* A call through a deprecated name that client.ts defines.
CallAlias(c, alias, o) ==
    /\ alias \in ClientAliases
    /\ Invoke(c, alias, o, RunAlias(alias, o))

\* A call through a deprecated name that only index.ts knows.
CallUnboundAlias(c, alias, o) ==
    /\ alias \notin ClientAliases
    /\ pc[c] = "idle"
    /\ op' = [op EXCEPT ![c] = alias]
    /\ options' = [options EXCEPT ![c] = o]
    /\ outcome' = [outcome EXCEPT ![c] = Rejected(NotAFunction(alias))]
    /\ pc' = [pc EXCEPT ![c] = "done"]
    /\ UNCHANGED <<hasWindow, location, urlParams, reads, requests, response,
                   console>>

NextAlias ==
    \/ \E alias \in IndexAliases : \E o \in OptionsOf(CanonicalOf(alias)) :
          CallAlias(1, alias, o)
    \/ \E alias \in IndexAliases : \E o \in OptionsOf(CanonicalOf(alias)) :
          CallUnboundAlias(1, alias, o)
    \/ \E r \in Responses : Respond(1, r)
    \/ Settle(1)
    \/ Return(1)

SpecAlias == Init /\ [][NextAlias]_vars

(***************************************************************************)
(* Direct use of the client: stakeEngineClient.post and .get called by     *)
(* the application itself.                                                 *)
(***************************************************************************)
PostOptions ==
    [url : {"/wallet/play", "/wallet/end-round"}, rgsUrl : {"h", ""},
     variables : {[sessionID |-> "s1", mode |-> "base", currency |-> "USD",
                   amount |-> FromInt(1000000)],
                  [sessionID |-> "s1", amount |-> OneUnit]}]
GetOptions ==
    [url : {"/bet/replay/slots/v1/base/e9", "/bet/replay/a/b/c/d?x=1"},
     rgsUrl : {"h", ""}]

\* Everything post() or get() does up to the await of fetcher.
CallClient(c, name, o, run) ==
    /\ pc[c] = "idle"
    /\ op' = [op EXCEPT ![c] = name]
    /\ options' = [options EXCEPT ![c] = o]
    /\ requests' = [requests EXCEPT ![c] = run.requests]
    /\ outcome' = [outcome EXCEPT ![c] = run.outcome]
    /\ pc' = [pc EXCEPT ![c] = "waiting"]
    /\ UNCHANGED <<hasWindow, location, urlParams, reads, response, console>>

Post(c, o) == CallClient(c, "post", o, post(o.rgsUrl, o.url, o.variables))
Get(c, o)  == CallClient(c, "get", o, get(o.rgsUrl, o.url))

NextClient ==
    \/ \E o \in PostOptions : Post(1, o)
    \/ \E o \in GetOptions : Get(1, o)
    \/ \E r \in Responses : Respond(1, r)
    \/ Settle(1)
    \/ Return(1)

SpecClient == Init /\ [][NextClient]_vars

(***************************************************************************)
(* Calls in flight at the same time: every slot takes calls, and the steps *)
(* of different calls interleave freely.                                   *)
(***************************************************************************)
ConcurrentLocations ==
    {[k \in UrlKeys |->
        CASE k = "sessionID" -> sid
          [] k = "rgs_url"   -> "rgs.example"
          [] k = "currency"  -> "JPY"
          [] k = "amount"    -> NoParam
          [] OTHER           -> NULL] : sid \in {NULL, "u1"}}

ConcurrentPlayOptions ==
    {[amount |-> OneUnit, mode |-> "base", currency |-> NULL,
      sessionID |-> "s1", rgsUrl |-> "h"],
     [amount |-> TwoOhOne, mode |-> "bonus", currency |-> "EUR",
      sessionID |-> NULL, rgsUrl |-> NULL]}
ConcurrentBalanceOptions == {[sessionID |-> "s1", rgsUrl |-> NULL]}

ConcurrentResponses ==
    { HttpResponse(200, "OK", [status |-> "SUCCESS", amount |-> 5000000]),
      HttpResponse(400, "Bad Request", [message |-> "bad session"]),
      NetworkFailure }

InitConcurrent ==
    /\ hasWindow \in BOOLEAN
    /\ location \in (IF hasWindow THEN ConcurrentLocations ELSE {NoParams})
    /\ IdleCalls

NextConcurrent ==
    \/ \E c \in Calls : \E o \in ConcurrentPlayOptions : Play(c, o)
    \/ \E c \in Calls : \E o \in ConcurrentBalanceOptions : GetBalance(c, o)
    \/ \E c \in Calls : \E r \in ConcurrentResponses : Respond(c, r)
    \/ \E c \in Calls : Settle(c)
    \/ \E c \in Calls : Return(c)

SpecConcurrent == InitConcurrent /\ [][NextConcurrent]_vars

(***************************************************************************)
(* Calls one after the other: the first slot keeps the earlier call, what  *)
(* it was given, what it read and what it returned, while the second slot  *)
(* makes the later call; the page may change its URL in between.           *)
(***************************************************************************)
SequenceLocations ==
    {[k \in UrlKeys |->
        CASE k = "sessionID" -> sid
          [] k = "rgs_url"   -> host
          [] k = "lang"      -> lang
          [] k = "currency"  -> cur
          [] k = "amount"    -> NoParam
          [] OTHER           -> NULL] :
        sid \in {NULL, "u1"}, host \in {NULL, "rgs.example"},
        lang \in {NULL, "de"}, cur \in {NULL, "JPY"}}

EarlierOptions ==
    [sessionID : {NULL, "s1"}, rgsUrl : {NULL, "h"}, language : {"fr"}]
LaterAuthenticateOptions == {[sessionID |-> NULL, rgsUrl |-> NULL, language |-> NULL]}
LaterPlayOptions ==
    {[amount |-> OneUnit, mode |-> "base", currency |-> NULL,
      sessionID |-> NULL, rgsUrl |-> NULL]}
LaterEndRoundOptions == [sessionID : {NULL, "s2"}, rgsUrl : {NULL}]

SequenceResponses ==
    { HttpResponse(200, "OK", [status |-> "SUCCESS", currency |-> "GBP"]),
      HttpResponse(400, "Bad Request", [message |-> "bad session"]) }

\* The page moves to another query string after the earlier call and
\* before the later one.
NavigateBetween(l) ==
    /\ hasWindow
    /\ pc[1] \in {"idle", "done"}
    /\ pc[2] = "idle"
    /\ location' = l
    /\ UNCHANGED <<hasWindow, pc, op, options, urlParams, reads, requests,
                   response, outcome, console>>

\* The later call starts once the earlier one has completed.
Later(step) == pc[1] = "done" /\ step

\* The earlier call's record is dropped when no later call is running.
ReturnEarlier == pc[2] = "idle" /\ Return(1)

InitSequence ==
    /\ hasWindow \in BOOLEAN
    /\ location \in (IF hasWindow THEN SequenceLocations ELSE {NoParams})
    /\ IdleCalls

NextSequence ==
    \/ \E o \in EarlierOptions : Authenticate(1, o)
    \/ \E l \in SequenceLocations : NavigateBetween(l)
    \/ \E o \in LaterAuthenticateOptions : Later(Authenticate(2, o))
    \/ \E o \in LaterPlayOptions : Later(Play(2, o))
    \/ \E o \in LaterEndRoundOptions : Later(EndRound(2, o))
    \/ \E c \in {1, 2} : \E r \in SequenceResponses : Respond(c, r)
    \/ \E c \in {1, 2} : Settle(c)
    \/ Return(2)
    \/ ReturnEarlier

SpecSequence == InitSequence /\ [][NextSequence]_vars

(***************************************************************************)
(* A page opened for a replay, with or without an amount in its URL, on    *)
(* which the operations are called.                                        *)
(***************************************************************************)
ReplayPageLocations ==
    {[k \in UrlKeys |->
        CASE k = "sessionID" -> "u1"
          [] k = "rgs_url"   -> host
          [] k = "replay"    -> "true"
          [] k = "amount"    -> amt
          [] k = "game"      -> "slots"
          [] k = "version"   -> "v1"
          [] k = "mode"      -> "base"
          [] k = "event"     -> "e9"
          [] OTHER           -> NULL] :
        host \in {NULL, "rgs.example"},
        amt \in {NoParam, Text(<<"2", ".", "5", "0">>), Text(<<"9">>), Text(<<"a">>)}}

InitReplayPage ==
    /\ hasWindow \in BOOLEAN
    /\ location \in (IF hasWindow THEN ReplayPageLocations ELSE {NoParams})
    /\ IdleCalls

NextReplayPage ==
    \/ \E o \in ReplayOptions : Replay(1, o)
    \/ \E o \in ConcurrentPlayOptions : Play(1, o)
    \/ GetReplayUrlParams(1)
    \/ \E r \in ConcurrentResponses : Respond(1, r)
    \/ Settle(1)
    \/ Return(1)

SpecReplayPage == InitReplayPage /\ [][NextReplayPage]_vars

(***************************************************************************)
(* Progress: a transport that eventually answers or fails every fetch, and *)
(* an event loop that eventually resumes every awaiting function.          *)
(***************************************************************************)
NextLive ==
    \/ \E o \in ConcurrentPlayOptions : Play(1, o)
    \/ \E o \in ReplayOptions : Replay(1, o)
    \/ \E r \in Responses : Respond(1, r)
    \/ Settle(1)
    \/ Return(1)

SpecLive ==
    /\ InitConcurrent
    /\ [][NextLive]_vars
    /\ WF_vars(\E r \in Responses : Respond(1, r))
    /\ WF_vars(Settle(1))

(***************************************************************************)
(* Vocabulary of the properties.                                           *)
(***************************************************************************)
\* The operations that send a sessionID.
SessionOperations == {"authenticate", "play", "endRound", "endEvent", "getBalance"}

\* The call in slot c has been made (and not yet handed back).
Called(c) == pc[c] # "idle"

\* The call in slot c put a request on the wire.
Sent(c) == Called(c) /\ requests[c] # <<>>

\* The sessionID and the host an operation is to use: the explicit option
\* when it is a non-empty string, else the URL parameter.
ExpectedSessionID(c) ==
    IF Truthy(options[c].sessionID) THEN options[c].sessionID
    ELSE location["sessionID"]
ExpectedHost(c) ==
    IF Truthy(options[c].rgsUrl) THEN options[c].rgsUrl ELSE location["rgs_url"]

\* The language and the currency an operation is to send: the explicit
\* option when non-empty, else the URL parameter when non-empty, else the
\* fixed default.
ExpectedLanguage(c) ==
    IF Truthy(options[c].language) THEN options[c].language
    ELSE IF Truthy(location["lang"]) THEN location["lang"]
    ELSE "en"
ExpectedCurrency(c) ==
    IF Truthy(options[c].currency) THEN options[c].currency
    ELSE IF Truthy(location["currency"]) THEN location["currency"]
    ELSE "USD"

\* The path each operation requests.
PathOf(c) ==
    CASE op[c] = "authenticate" -> "/wallet/authenticate"
      [] op[c] = "play"         -> "/wallet/play"
      [] op[c] = "endRound"     -> "/wallet/end-round"
      [] op[c] = "endEvent"     -> "/bet/event"
      [] op[c] = "forceResult"  -> "/game/search"
      [] op[c] = "getBalance"   -> "/wallet/balance"
      [] op[c] = "replay"       ->
            "/bet/replay/" \o options[c].game \o "/" \o options[c].version
                \o "/" \o options[c].mode \o "/" \o options[c].event

\* The amount is a decimal with at most two fractional digits: it is the
\* Number its own value in hundredths denotes.
CentsOf(a) == Round(NumberTimes(a, 100))
IsCentAmount(a) == a = DecimalToDouble(CentsOf(a), 2)

(***************************************************************************)
(* C1.  An operation that needs a sessionID, called with no explicit       *)
(* sessionID while the URL has none, fails with the missing-session error  *)
(* and issues no request.                                                  *)
(***************************************************************************)
C1_MissingSessionError ==
    \A c \in Calls :
        ( /\ Called(c)
          /\ op[c] \in SessionOperations
          /\ options[c].sessionID = NULL
          /\ location["sessionID"] = NULL )
        => /\ outcome[c] = Rejected(Error(MissingSessionMsg))
           /\ requests[c] = <<>>

(***************************************************************************)
(* C2.  Any operation called with no explicit rgsUrl while the URL has no  *)
(* rgs_url fails with the missing-server error and issues no request.      *)
(***************************************************************************)
C2_MissingServerError ==
    \A c \in Calls :
        ( /\ Called(c)
          /\ options[c].rgsUrl = NULL
          /\ location["rgs_url"] = NULL )
        => /\ outcome[c] = Rejected(Error(MissingServerMsg))
           /\ requests[c] = <<>>

(***************************************************************************)
(* C3.  Priority law: every request carries the explicit sessionID and     *)
(* host when the explicit option is a non-empty string, whatever the URL   *)
(* holds, and the URL's value only when the explicit option is undefined   *)
(* or empty.                                                               *)
(***************************************************************************)
C3_ExplicitBeforeAmbient ==
    \A c \in Calls :
        Sent(c) =>
            /\ requests[c][1].endpoint = "https://" \o ExpectedHost(c) \o PathOf(c)
            /\ op[c] \in SessionOperations
                    => requests[c][1].body.sessionID = ExpectedSessionID(c)

\* A request whose sessionID is the explicit one although the URL has
\* another, and whose host comes from the URL because none was given.
C3_Witness ==
    /\ Sent(1)
    /\ op[1] = "play"
    /\ options[1].sessionID = "s1"
    /\ location["sessionID"] = "u1"
    /\ options[1].rgsUrl = NULL
    /\ requests[1][1].body.sessionID = "s1"
    /\ requests[1][1].endpoint = "https://rgs.example/wallet/play"

(***************************************************************************)
(* C4.  The language authenticate sends is the explicit one if non-empty,  *)
(* else the URL's lang if non-empty, else "en"; the currency play sends    *)
(* is the explicit one if non-empty, else the URL's currency if non-empty, *)
(* else "USD".  Neither is ever sent empty or absent.                      *)
(***************************************************************************)
C4_OptionalDefaults ==
    \A c \in Calls :
        /\ (Sent(c) /\ op[c] = "authenticate") =>
              /\ requests[c][1].body.language = ExpectedLanguage(c)
              /\ Truthy(requests[c][1].body.language)
        /\ (Sent(c) /\ op[c] = "play") =>
              /\ requests[c][1].body.currency = ExpectedCurrency(c)
              /\ Truthy(requests[c][1].body.currency)

\* authenticate with an empty explicit language on a page whose lang is
\* empty too: "en" is sent.
C4_Witness ==
    /\ Sent(1)
    /\ op[1] = "authenticate"
    /\ options[1].language = ""
    /\ location["lang"] = ""
    /\ requests[1][1].body.language = "en"

(***************************************************************************)
(* C5.  Where no window exists, every operation called with all the values *)
(* it needs given explicitly issues its request.                           *)
(***************************************************************************)
C5_HeadlessExplicitCall ==
    \A c \in Calls :
        ( /\ ~hasWindow
          /\ Called(c)
          /\ Truthy(options[c].rgsUrl)
          /\ op[c] \in SessionOperations => Truthy(options[c].sessionID)
          /\ op[c] = "authenticate" => Truthy(options[c].language)
          /\ op[c] = "play" => Truthy(options[c].currency) )
        => Len(requests[c]) = 1

(***************************************************************************)
(* C6.  The amount play sends is the caller's amount times the API         *)
(* multiplier 1,000,000: 1.00 gives 1000000, 10.50 gives 10500000, 0 gives *)
(* 0; for an amount of n hundredths the amount sent is, to the nearest     *)
(* integer, n * 10,000 (linear in n); it is never the amount times the     *)
(* book multiplier 100.                                                    *)
(***************************************************************************)
C6_ApiMultiplier ==
    \A c \in Calls :
        (Sent(c) /\ op[c] = "play") =>
            LET a    == options[c].amount
                sent == requests[c][1].body.amount
            IN  /\ a = DecimalToDouble(100, 2)  => sent = FromInt(1000000)
                /\ a = DecimalToDouble(1050, 2) => sent = FromInt(10500000)
                /\ a = Zero => sent = Zero
                /\ IsCentAmount(a) => Round(sent) = CentsOf(a) * 10000
                /\ a # Zero => sent # NumberTimes(a, BOOK_AMOUNT_MULTIPLIER)

\* play with 10.50 sent 10500000.
C6_Witness ==
    /\ Sent(1)
    /\ op[1] = "play"
    /\ options[1].amount = DecimalToDouble(1050, 2)
    /\ requests[1][1].body.amount = FromInt(10500000)

(***************************************************************************)
(* C7.  For every non-negative amount the amount play sends is a           *)
(* non-negative integer, equal to round(amount * 1,000,000).               *)
(***************************************************************************)
C7_IntegerMinorUnits ==
    \A c \in Calls :
        (Sent(c) /\ op[c] = "play") =>
            LET sent == requests[c][1].body.amount
            IN  /\ IsInteger(sent)
                /\ sent = FromInt(Round(NumberTimes(options[c].amount,
                                                    API_AMOUNT_MULTIPLIER)))

(***************************************************************************)
(* C8.  Round trip: for every amount with at most two decimal digits,      *)
(* dividing the amount play sent by the API multiplier gives back exactly  *)
(* the caller's amount; and the layer does not divide on the way back: a   *)
(* 200 response's parsed body is the result, its amount as the server      *)
(* sent it.                                                                *)
(***************************************************************************)
C8_RoundTrip ==
    \A c \in Calls :
        /\ (Sent(c) /\ op[c] = "play" /\ IsCentAmount(options[c].amount)) =>
              NumberOver(requests[c][1].body.amount, API_AMOUNT_MULTIPLIER)
                  = options[c].amount
        /\ ( /\ pc[c] = "done"
             /\ Sent(c)
             /\ ~response[c].failed
             /\ response[c].status = 200
             /\ response[c].body # NotJson )
           => outcome[c] = Fulfilled(response[c].body)

\* play with 2.01, whose product with the multiplier is not an integer in
\* binary floating point, completed with a 200 response carrying an amount.
C8_Witness ==
    /\ pc[1] = "done"
    /\ op[1] = "play"
    /\ options[1].amount = DecimalToDouble(201, 2)
    /\ ~IsInteger(requests[1][1].body.amount)
    /\ NumberOver(requests[1][1].body.amount, API_AMOUNT_MULTIPLIER)
           = DecimalToDouble(201, 2)
    /\ outcome[1] = Fulfilled([status |-> "SUCCESS", amount |-> 5000000])

(***************************************************************************)
(* C9.  play called with explicit sessionID, rgsUrl, amount and mode puts  *)
(* exactly one request on the wire: a POST to https://{rgsUrl}/wallet/play *)
(* whose body holds the explicit sessionID, the mode, the resolved         *)
(* currency and amount * 1,000,000.                                        *)
(***************************************************************************)
C9_PlayRequest ==
    \A c \in Calls :
        ( /\ Called(c)
          /\ op[c] = "play"
          /\ Truthy(options[c].sessionID)
          /\ Truthy(options[c].rgsUrl) )
        => /\ Len(requests[c]) = 1
           /\ requests[c][1].method = "POST"
           /\ requests[c][1].endpoint = "https://" \o options[c].rgsUrl \o "/wallet/play"
           /\ requests[c][1].body.sessionID = options[c].sessionID
           /\ requests[c][1].body.mode = options[c].mode
           /\ requests[c][1].body.currency = ExpectedCurrency(c)
           /\ requests[c][1].body.amount =
                  NumberTimes(options[c].amount, API_AMOUNT_MULTIPLIER)
           /\ options[c].amount = OneUnit
                  => requests[c][1].body.amount = FromInt(1000000)

(***************************************************************************)
(* C10.  A call issues at most one request, exactly one when its           *)
(* parameters resolve and none otherwise, and it still has issued only     *)
(* that one after any answer: a 200, a non-200 or a transport failure.     *)
(***************************************************************************)
ParametersResolve(c) ==
    /\ hasWindow
    /\ op[c] \in SessionOperations => Truthy(ExpectedSessionID(c))
    /\ Truthy(ExpectedHost(c))

Answered(c) ==
    /\ pc[c] = "done"
    /\ requests[c] # <<>>
    /\ ~response[c].failed

(***************************************************************************)
(* C11.  A response whose status is not 200 and whose JSON body has a      *)
(* non-empty 'message' makes the operation fail with one error whose       *)
(* message is that field; no result is returned.                           *)
(***************************************************************************)
C11_ErrorMessageFromBody ==
    \A c \in Calls :
        ( /\ Answered(c)
          /\ response[c].status # 200
          /\ Truthy(Field(response[c].body, "message")) )
        => outcome[c] = Rejected(Error(response[c].body.message))

\* A call answered 400 {"message": "bad session"} failed with "bad session".
C11_Witness ==
    /\ Answered(1)
    /\ response[1] = HttpResponse(400, "Bad Request", [message |-> "bad session"])
    /\ outcome[1] = Rejected(Error("bad session"))

(***************************************************************************)
(* C12.  A response whose status is not 200 and whose body is not JSON     *)
(* makes the operation fail, not with the parse failure, but with one      *)
(* error whose message is 'RGS API error: {status} {statusText}'.          *)
(***************************************************************************)
C12_StatusInMessage ==
    \A c \in Calls :
        ( /\ Answered(c)
          /\ response[c].status # 200
          /\ response[c].body = NotJson )
        => /\ outcome[c] = Rejected(Error(
                  "RGS API error: " \o ToString(response[c].status) \o " "
                      \o response[c].statusText))
           /\ response[c].status = 500 =>
                  outcome[c].error.message = "RGS API error: 500 Internal Server Error"

\* A call answered 500 with an HTML body failed with the status message.
C12_Witness ==
    /\ Answered(1)
    /\ response[1] = HttpResponse(500, "Internal Server Error", NotJson)
    /\ outcome[1] = Rejected(Error("RGS API error: 500 Internal Server Error"))

(***************************************************************************)
(* C13.  A 200 response makes the operation return the parsed body as it   *)
(* is and raise nothing, also when the body carries a domain error status  *)
(* such as ERR_IPB.                                                        *)
(***************************************************************************)
C13_SuccessBodyVerbatim ==
    \A c \in Calls :
        ( /\ Answered(c)
          /\ response[c].status = 200
          /\ response[c].body # NotJson )
        => /\ outcome[c].kind = "fulfilled"
           /\ outcome[c].value = response[c].body
           /\ console[c] = <<>>

\* A call answered 200 with an ERR_IPB body returned that body.
C13_Witness ==
    /\ Answered(1)
    /\ response[1].status = 200
    /\ response[1].body = [status |-> "ERR_IPB", amount |-> 0]
    /\ outcome[1] = Fulfilled([status |-> "ERR_IPB", amount |-> 0])

(***************************************************************************)
(* C14.  replay and forceResult need no sessionID: called where no         *)
(* sessionID is available from any source, with an rgsUrl that resolves,   *)
(* each issues its request and does not fail with the missing-session      *)
(* error.                                                                  *)
(***************************************************************************)
C14_NoSessionNeeded ==
    \A c \in Calls :
        ( /\ Called(c)
          /\ op[c] \in {"replay", "forceResult"}
          /\ ~Truthy(location["sessionID"])
          /\ Truthy(ExpectedHost(c)) )
        => /\ Len(requests[c]) = 1
           /\ outcome[c] # Rejected(Error(MissingSessionMsg))

(***************************************************************************)
(* C15.  The request replay issues is a GET with no body to                *)
(* https://{rgsUrl}/bet/replay/{game}/{version}/{mode}/{event}: the four   *)
(* option values as they are, in that order, and nothing after them.       *)
(***************************************************************************)
C15_ReplayRequest ==
    \A c \in Calls :
        (Sent(c) /\ op[c] = "replay") =>
            /\ Len(requests[c]) = 1
            /\ requests[c][1].method = "GET"
            /\ requests[c][1].body = NULL
            /\ requests[c][1].endpoint =
                   "https://" \o ExpectedHost(c) \o "/bet/replay/"
                       \o options[c].game \o "/" \o options[c].version \o "/"
                       \o options[c].mode \o "/" \o options[c].event
            /\ (options[c].rgsUrl = "h" /\ options[c].event = "e9") =>
                   requests[c][1].endpoint = "https://h/bet/replay/slots/v1/base/e9"

\* replay of an event whose identifier has a space and a question mark:
\* both are in the endpoint as given.
C15_Witness ==
    /\ Sent(1)
    /\ op[1] = "replay"
    /\ options[1].event = "a b?c"
    /\ requests[1][1].method = "GET"
    /\ requests[1][1].endpoint = "https://h/bet/replay/slots/v1/base/a b?c"

(***************************************************************************)
(* C16.  isReplayMode() returns true if and only if the URL's 'replay'     *)
(* parameter is exactly "true"; it returns false when the parameter is     *)
(* absent, empty, or any other value ("1", "TRUE").                        *)
(***************************************************************************)
C16_ReplayFlagLiteral ==
    \A c \in Calls :
        (Called(c) /\ op[c] = "isReplayMode" /\ hasWindow) =>
            /\ outcome[c] \in {Fulfilled(TRUE), Fulfilled(FALSE)}
            /\ outcome[c] = Fulfilled(TRUE) <=> location["replay"] = "true"
            /\ location["replay"] \in {NULL, "", "1", "TRUE"}
                   => outcome[c] = Fulfilled(FALSE)

\* On a page with replay=TRUE, isReplayMode() returned false.
C16_Witness ==
    /\ Called(1)
    /\ op[1] = "isReplayMode"
    /\ location["replay"] = "TRUE"
    /\ outcome[1] = Fulfilled(FALSE)

\* The readings of a text as a signed decimal literal between blanks:
\* blanks, an optional sign, digits, an optional point and digits, blanks,
\* with at least one digit.
DecimalReadings(t) ==
    LET L == Len(t)
        Blank(lo, hi)  == \A i \in lo..hi : t[i] = " "
        Digits(lo, hi) == \A i \in lo..hi : IsDigit(t[i])
    IN  {[neg |-> sg = 1 /\ t[lead + 1] = "-",
          n   |-> DigitsValue(SubSeq(t, lead + sg + 1, lead + sg + ip)
                              \o SubSeq(t, lead + sg + ip + dt + 1,
                                         lead + sg + ip + dt + fp)),
          d   |-> fp] :
            <<lead, sg, ip, dt, fp>> \in
              {x \in (0..L) \X (0..1) \X (0..L) \X (0..1) \X (0..L) :
                  /\ x[1] + x[2] + x[3] + x[4] + x[5] <= L
                  /\ x[3] + x[5] >= 1
                  /\ x[4] = 0 => x[5] = 0
                  /\ Blank(1, x[1])
                  /\ x[2] = 1 => t[x[1] + 1] \in {"+", "-"}
                  /\ Digits(x[1] + x[2] + 1, x[1] + x[2] + x[3])
                  /\ x[4] = 1 => t[x[1] + x[2] + x[3] + 1] = "."
                  /\ Digits(x[1] + x[2] + x[3] + x[4] + 1,
                            x[1] + x[2] + x[3] + x[4] + x[5])
                  /\ Blank(x[1] + x[2] + x[3] + x[4] + x[5] + 1, L)}}

\* The amount a page's amount parameter stands for: its numeric value, and
\* 0 when it is missing or is not a number.
AmountOf(param) ==
    IF param = NoParam THEN PlusZero
    ELSE LET rs == DecimalReadings(param.chars)
         IN  IF rs = {} THEN PlusZero
             ELSE LET r == CHOOSE r \in rs : TRUE
                      v == DecimalToDouble(r.n, r.d)
                  IN  IF v = Zero THEN PlusZero ELSE SignedNumber(r.neg, v)

(***************************************************************************)
(* C17.  getReplayUrlParams() returns for every URL: game, version, mode   *)
(* and event are the URL's values or '' when not provided, amount is the   *)
(* URL's numeric value or 0 when not provided or not a number, and replay  *)
(* is what isReplayMode() returns for the same URL.                        *)
(***************************************************************************)
C17_ReplayParamsTotal ==
    \A c \in Calls :
        (Called(c) /\ op[c] = "getReplayUrlParams" /\ hasWindow) =>
            /\ outcome[c].kind = "fulfilled"
            /\ \A k \in {"game", "version", "mode", "event"} :
                   outcome[c].value[k] =
                       (IF Truthy(location[k]) THEN location[k] ELSE "")
            /\ outcome[c].value.amount = AmountOf(location["amount"])
            /\ location["amount"] = Text(<<"2", ".", "5", "0">>) =>
                   outcome[c].value.amount = SignedNumber(FALSE, DecimalToDouble(25, 1))
            /\ outcome[c].value.replay = (location["replay"] = "true")
            /\ Fulfilled(outcome[c].value.replay) = isReplayMode

\* On a page whose amount is the text "2a" (not a number), the amount
\* returned is 0 and the event is the URL's.
C17_Witness ==
    /\ Called(1)
    /\ op[1] = "getReplayUrlParams"
    /\ location["amount"] = Text(<<"2", "a">>)
    /\ outcome[1].kind = "fulfilled"
    /\ outcome[1].value.amount = PlusZero
    /\ outcome[1].value.event = "e9"

\* What the canonical operation does, up to its first await, when called
\* with the options o.
RunCanonical(name, o) ==
    CASE name = "authenticate" -> authenticate(o)
      [] name = "play"         -> play(o)
      [] name = "endRound"     -> endRound(o)
      [] name = "endEvent"     -> endEvent(o)
      [] name = "forceResult"  -> forceResult(o)
      [] name = "getBalance"   -> getBalance(o)
      [] name = "replay"       -> replay(o)

(***************************************************************************)
(* C18.  A call through any deprecated name the package exports does what  *)
(* the canonical operation does with the same options on the same page:    *)
(* the same requests, and the same result or error.                        *)
(***************************************************************************)
C18_AliasesEquivalent ==
    \A c \in Calls :
        (Called(c) /\ op[c] \in IndexAliases) =>
            LET run == RunCanonical(CanonicalOf(op[c]), options[c])
            IN  /\ requests[c] = run.requests
                /\ (pc[c] = "done" /\ requests[c] = <<>>) => outcome[c] = run.outcome
                /\ (pc[c] = "done" /\ requests[c] # <<>>)
                       => outcome[c] = afterFetch(response[c]).outcome

(***************************************************************************)
(* C19.  StakeEngineClient.post and .get forward what they are given and   *)
(* nothing else: the body is the caller's variables (an amount in it is    *)
(* not multiplied), the host is the caller's rgsUrl, and the page URL is   *)
(* never read, so there is no URL-parameter fallback.                      *)
(***************************************************************************)
C19_ClientForwards ==
    \A c \in Calls :
        (Called(c) /\ op[c] \in {"post", "get"}) =>
            /\ Len(requests[c]) = 1
            /\ requests[c][1].endpoint =
                   "https://" \o options[c].rgsUrl \o options[c].url
            /\ op[c] = "post" =>
                   /\ requests[c][1].method = "POST"
                   /\ requests[c][1].body = options[c].variables
            /\ op[c] = "get" =>
                   /\ requests[c][1].method = "GET"
                   /\ requests[c][1].body = NULL
            /\ reads[c] = 0
            /\ urlParams[c] = NoCall

\* post() called with an empty rgsUrl and an amount of 1.00 on a page whose
\* URL names a server: the host stays empty, the amount stays 1.00.
C19_Witness ==
    /\ Called(1)
    /\ op[1] = "post"
    /\ options[1].rgsUrl = ""
    /\ location["rgs_url"] = "rgs.example"
    /\ options[1].variables.amount = OneUnit
    /\ requests[1][1].body.amount = OneUnit
    /\ requests[1][1].endpoint = "https:///wallet/play"

(***************************************************************************)
(* C20, as stated.  On every failure path the layer only raises: a call    *)
(* that failed has logged nothing, has not retried, and no non-200         *)
(* response was turned into a result.                                      *)
(***************************************************************************)
C20_SilentFailure ==
    \A c \in Calls :
        /\ Len(requests[c]) <= 1
        /\ (pc[c] = "done" /\ outcome[c].kind = "rejected") => console[c] = <<>>
        /\ (Answered(c) /\ response[c].status # 200) => outcome[c].kind = "rejected"

(***************************************************************************)
(* C20, amended.  Every failure reaches the caller by being raised, with   *)
(* no retry and no suppression.  A call that fails before sending, or      *)
(* whose fetch fails, logs nothing; a call answered with a non-200 status  *)
(* first writes one console.error line, 'RGS API error:' and the message   *)
(* field of the error body (undefined when the body has none or is not     *)
(* JSON), and then raises; when the error body is the JSON value null,     *)
(* reading its message raises before anything is logged.                   *)
(***************************************************************************)
C20_LogsThenRaises ==
    \A c \in Calls :
        /\ Len(requests[c]) <= 1
        /\ (pc[c] = "done" /\ requests[c] = <<>>) =>
               /\ outcome[c].kind = "rejected"
               /\ console[c] = <<>>
        /\ (pc[c] = "done" /\ requests[c] # <<>> /\ response[c].failed) =>
               /\ outcome[c] = Rejected(response[c].error)
               /\ console[c] = <<>>
        /\ (Answered(c) /\ response[c].status # 200) =>
               /\ outcome[c].kind = "rejected"
               /\ console[c] =
                      (IF response[c].body = JsonNull THEN <<>>
                       ELSE << <<"RGS API error:", Field(response[c].body, "message")>> >>)
        /\ (Answered(c) /\ response[c].status = 200) => console[c] = <<>>

\* A call answered 400 {"message": "bad session"} has logged that message
\* once and failed with it.
C20_Witness ==
    /\ Answered(1)
    /\ response[1] = HttpResponse(400, "Bad Request", [message |-> "bad session"])
    /\ console[1] = << <<"RGS API error:", "bad session">> >>
    /\ outcome[1] = Rejected(Error("bad session"))

(***************************************************************************)
(* C21.  No request leaves with an empty mandatory field: in every request *)
(* of every operation, whatever the explicit options (empty strings        *)
(* included) and the URL, and after any earlier calls, the host is         *)
(* non-empty, and so is the body's sessionID for authenticate, play,       *)
(* endRound, endEvent and getBalance.                                      *)
(***************************************************************************)
C21_NoEmptyMandatoryField ==
    \A c \in Calls :
        Sent(c) =>
            /\ \A r \in 1..Len(requests[c]) :
                   /\ requests[c][r].endpoint # "https://" \o PathOf(c)
                   /\ requests[c][r].endpoint \in
                          {"https://" \o h \o PathOf(c) : h \in {"h", "rgs.example"}}
                   /\ op[c] \in SessionOperations =>
                          requests[c][r].body.sessionID \in {"s1", "u1"}

\* endRound called with an empty sessionID and an empty rgsUrl on a page
\* that has both: the request carries the page's values, not the empty ones.
C21_Witness ==
    /\ Sent(1)
    /\ op[1] = "endRound"
    /\ options[1].sessionID = ""
    /\ options[1].rgsUrl = ""
    /\ requests[1][1].body.sessionID = "u1"
    /\ requests[1][1].endpoint = "https://rgs.example/wallet/end-round"

\* The operations that write: all but replay.
WriteOperations == SessionOperations \cup {"forceResult"}

\* The body each write operation is to send, from the resolved parameters.
ExpectedBody(c) ==
    CASE op[c] = "authenticate" ->
            [sessionID |-> ExpectedSessionID(c), language |-> ExpectedLanguage(c)]
      [] op[c] = "play" ->
            [mode      |-> options[c].mode,
             currency  |-> ExpectedCurrency(c),
             sessionID |-> ExpectedSessionID(c),
             amount    |-> NumberTimes(options[c].amount, API_AMOUNT_MULTIPLIER)]
      [] op[c] = "endRound"   -> [sessionID |-> ExpectedSessionID(c)]
      [] op[c] = "getBalance" -> [sessionID |-> ExpectedSessionID(c)]
      [] op[c] = "endEvent" ->
            [sessionID |-> ExpectedSessionID(c),
             event     |-> IF options[c].eventIndex = 0 THEN "0" ELSE "1"]
      [] op[c] = "forceResult" ->
            [mode |-> options[c].mode, search |-> options[c].search]

(***************************************************************************)
(* C22.  A write operation that sends, sends exactly one POST to its own   *)
(* fixed path on the resolved host with a body of the resolved parameters: *)
(* authenticate /wallet/authenticate {sessionID, language}; play           *)
(* /wallet/play {mode, currency, sessionID, amount}; endRound              *)
(* /wallet/end-round {sessionID}; getBalance /wallet/balance {sessionID};  *)
(* endEvent /bet/event {sessionID, event}; forceResult /game/search        *)
(* {mode, search}.  None posts to the path of another.                     *)
(***************************************************************************)
C22_WriteRequests ==
    \A c \in Calls :
        (Sent(c) /\ op[c] \in WriteOperations) =>
            /\ Len(requests[c]) = 1
            /\ requests[c][1].method = "POST"
            /\ requests[c][1].endpoint =
                   "https://" \o ExpectedHost(c) \o
                       (CASE op[c] = "authenticate" -> "/wallet/authenticate"
                          [] op[c] = "play"         -> "/wallet/play"
                          [] op[c] = "endRound"     -> "/wallet/end-round"
                          [] op[c] = "getBalance"   -> "/wallet/balance"
                          [] op[c] = "endEvent"     -> "/bet/event"
                          [] op[c] = "forceResult"  -> "/game/search")
            /\ requests[c][1].body = ExpectedBody(c)

\* forceResult sent its search to /game/search.
C22_Witness ==
    /\ Sent(1)
    /\ op[1] = "forceResult"
    /\ requests[1][1].method = "POST"
    /\ requests[1][1].endpoint = "https://h/game/search"
    /\ requests[1][1].body = [mode |-> "bonus", search |-> [bookID |-> 42, symbol |-> "BONUS"]]

(***************************************************************************)
(* C23.  Calls in flight at the same time do not interfere: under every    *)
(* interleaving, the request of each call carries the values resolved for  *)
(* that call, and each call gets the outcome of its own request.           *)
(***************************************************************************)
C23_NoInterference ==
    \A c \in Calls :
        /\ Sent(c) =>
              /\ Len(requests[c]) = 1
              /\ requests[c][1].endpoint = "https://" \o ExpectedHost(c) \o PathOf(c)
              /\ requests[c][1].body = ExpectedBody(c)
        /\ pc[c] \in {"waiting", "responded"} => outcome[c] = Pending
        /\ (pc[c] = "done" /\ requests[c] # <<>>) =>
              outcome[c] =
                  (IF response[c].failed THEN Rejected(response[c].error)
                   ELSE IF response[c].status = 200 THEN Fulfilled(response[c].body)
                   ELSE Rejected(Error(response[c].body.message)))

\* Two plays answered and not yet resumed: each has its own request and
\* its own answer, a 200 for the first and a 400 for the second.
C23_Witness ==
    /\ pc[1] = "responded"
    /\ pc[2] = "responded"
    /\ op[1] = "play"
    /\ op[2] = "play"
    /\ requests[1][1].body.sessionID = "s1"
    /\ requests[2][1].body.sessionID = "u1"
    /\ requests[1][1].endpoint = "https://h/wallet/play"
    /\ requests[2][1].endpoint = "https://rgs.example/wallet/play"
    /\ response[1] = HttpResponse(200, "OK", [status |-> "SUCCESS", amount |-> 5000000])
    /\ response[2] = HttpResponse(400, "Bad Request", [message |-> "bad session"])

(***************************************************************************)
(* C24.  Nothing is kept from one call to the next: whatever an earlier    *)
(* call was given, read from the URL or got back, a later call resolves    *)
(* its sessionID, rgsUrl, language and currency from its own options and   *)
(* from the URL as it is when the later call is made; a value it does not  *)
(* supply and the URL no longer has is missing.                            *)
(***************************************************************************)
C24_NothingCached ==
    Called(2) =>
        /\ (op[2] \in SessionOperations /\ ~Truthy(ExpectedSessionID(2))) =>
               /\ requests[2] = <<>>
               /\ outcome[2].kind = "rejected"
        /\ ~Truthy(ExpectedHost(2)) =>
               /\ requests[2] = <<>>
               /\ outcome[2].kind = "rejected"
        /\ Sent(2) =>
               /\ requests[2][1].endpoint =
                      "https://" \o ExpectedHost(2) \o PathOf(2)
               /\ requests[2][1].body = ExpectedBody(2)

\* authenticate was called with an explicit sessionID and rgsUrl on a page
\* that had a sessionID and succeeded; the page then lost its sessionID,
\* and endRound called with no options fails for the missing sessionID.
C24_Witness ==
    /\ hasWindow
    /\ pc[1] = "done"
    /\ options[1].sessionID = "s1"
    /\ options[1].rgsUrl = "h"
    /\ urlParams[1].sessionID = "u1"
    /\ outcome[1].kind = "fulfilled"
    /\ location["sessionID"] = NULL
    /\ location["rgs_url"] = "rgs.example"
    /\ pc[2] = "done"
    /\ op[2] = "endRound"
    /\ options[2].sessionID = NULL
    /\ requests[2] = <<>>
    /\ outcome[2] = Rejected(Error(MissingSessionMsg))

C26_UrlAmountUnused ==
    \A c \in Calls :
        /\ (Sent(c) /\ op[c] = "replay") =>
              /\ requests[c][1].endpoint =
                     "https://" \o ExpectedHost(c) \o "/bet/replay/"
                         \o options[c].game \o "/" \o options[c].version \o "/"
                         \o options[c].mode \o "/" \o options[c].event
              /\ requests[c][1].body = NULL
        /\ (Sent(c) /\ op[c] = "play") =>
              /\ requests[c][1].endpoint = "https://" \o ExpectedHost(c) \o "/wallet/play"
              /\ requests[c][1].body = ExpectedBody(c)

\* replay called on a page whose URL has amount=2.50: the request does not
\* carry it.
C26_Witness ==
    /\ Sent(1)
    /\ op[1] = "replay"
    /\ location["amount"] = Text(<<"2", ".", "5", "0">>)
    /\ requests[1][1].endpoint = "https://rgs.example/bet/replay/slots/v1/base/e9"
    /\ requests[1][1].body = NULL

(***************************************************************************)
(* C27.  Provided the transport eventually answers or fails, every call    *)
(* eventually completes, with exactly one outcome, a result or an error,   *)
(* which then stays; and the layer has no timeout: a call that waits stays *)
(* pending until the transport answers or fails, nothing else ends the     *)
(* wait.                                                                   *)
(***************************************************************************)
C27_EventuallyOneOutcome ==
    /\ (pc[1] # "idle") ~> (pc[1] = "done")
    /\ [](pc[1] = "done" => outcome[1].kind \in {"fulfilled", "rejected"})
    /\ [](pc[1] \in {"waiting", "responded"} => outcome[1] = Pending)
    /\ [][(pc[1] = "done" /\ pc'[1] = "done") => outcome'[1] = outcome[1]]_vars
    /\ [][(pc[1] = "waiting" /\ pc'[1] # "waiting") =>
              (pc'[1] = "responded" /\ response'[1] \in Responses)]_vars

\* A call whose fetch failed has completed, with the transport's error.
C27_Witness ==
    /\ pc[1] = "done"
    /\ requests[1] # <<>>
    /\ response[1] = NetworkFailure
    /\ outcome[1] = Rejected(NetworkFailure.error)

(***************************************************************************)
(* C28.  When neither the sessionID nor the rgsUrl can be resolved for an  *)
(* operation that needs both, the error raised is the missing-session      *)
(* error and not the missing-server error: the session check comes first,  *)
(* and one error is raised.                                                *)
(***************************************************************************)
C28_SessionCheckFirst ==
    \A c \in Calls :
        ( /\ Called(c)
          /\ op[c] \in SessionOperations
          /\ ~Truthy(ExpectedSessionID(c))
          /\ ~Truthy(ExpectedHost(c)) )
        => /\ outcome[c] = Rejected(Error(MissingSessionMsg))
           /\ requests[c] = <<>>

(***************************************************************************)
(* C29.  A response whose status is not 200 and whose body parses as JSON  *)
(* but has no 'message', or an empty one, makes the operation fail with    *)
(* 'RGS API error: {status} {statusText}', as for an unparsable body; the  *)
(* message of the error is never empty or undefined.                       *)
(***************************************************************************)
C29_GenericMessage ==
    \A c \in Calls :
        ( /\ Answered(c)
          /\ response[c].status # 200
          /\ response[c].body # NotJson
          /\ ~Truthy(Field(response[c].body, "message")) )
        => outcome[c] = Rejected(Error(
               "RGS API error: " \o ToString(response[c].status) \o " "
                   \o response[c].statusText))

(***************************************************************************)
(* C30.  endEvent sends the eventIndex as its decimal string in the body   *)
(* field 'event' (1 as "1", 0 as "0") with the resolved sessionID; an      *)
(* index of 0 is sent like any other, not taken for a missing one.         *)
(***************************************************************************)
C30_EventIndexAsString ==
    \A c \in Calls :
        /\ (Sent(c) /\ op[c] = "endEvent") =>
              /\ options[c].eventIndex = 0 => requests[c][1].body.event = "0"
              /\ options[c].eventIndex = 1 => requests[c][1].body.event = "1"
              /\ requests[c][1].body.event \in {"0", "1"}
              /\ requests[c][1].body.sessionID = ExpectedSessionID(c)
        /\ (Called(c) /\ op[c] = "endEvent" /\ ParametersResolve(c)) =>
              Len(requests[c]) = 1

\* endEvent with eventIndex 0 sent event "0".
C30_Witness ==
    /\ Sent(1)
    /\ op[1] = "endEvent"
    /\ options[1].eventIndex = 0
    /\ requests[1][1].body.event = "0"
    /\ requests[1][1].endpoint = "https://h/bet/event"

=============================================================================
